---- MODULE Spec2Model ----
(***************************************************************************)
(* Model of duplicate_file_report.py: two directory trees are walked,      *)
(* every file is hashed in chunks, the records of both trees are           *)
(* concatenated, sorted by size and rendered into a styled workbook.       *)
(*                                                                         *)
(* File names are sequences of one-character strings, file contents are    *)
(* sequences of bytes, a record is the 6-tuple the code appends:           *)
(* <<name, hash, extension, size, folder label, content type>>.            *)
(***************************************************************************)
EXTENDS Integers, Sequences, FiniteSets, TLC

VARIABLES
    fs,             \* the two roots on disk: fs[1] = "folder1", fs[2] = "folder2"
    pc,             \* position of the run
    r, d, f,        \* root, directory (in os.walk order) and file being visited
    file_list,      \* records appended so far (both calls concatenated)
    handles,        \* number of input file handles open
    hash_algo,      \* bytes fed to the md5 accumulator of the current call
    offset,         \* read position of the open handle
    file_size,      \* os.path.getsize result of the current file
    hashed,         \* number of calculate_full_hash calls started
    err,            \* exception that ended the run, or "none"
    report,         \* the workbook saved at report_path, or NoReport
    filename,       \* input of the name functions
    file_extension, \* result of os.path.splitext(file)[1].lower()
    content_type    \* result of is_form_type(file)

vars == <<fs, pc, r, d, f, file_list, handles, hash_algo, offset, file_size,
          hashed, err, report, filename, file_extension, content_type>>

(***************************************************************************)
(* Bounds                                                                  *)
(***************************************************************************)
MaxFiles == 2       \* files on disk, both roots together
MaxDirs == 2        \* directories of one root, the root itself included
MaxBytes == 2       \* bytes in one file
MaxNameLen == 4     \* characters in a file name
MaxRecords == 3     \* records handed directly to the report builder

chunk_size == 1      \* bytes per read, scaled down from 1024 * 1024

Bytes == {0}
Chars == {"(", ")", ".", "a", "A", "1"}
Alnum == {"a", "A", "1"}

None == "None"
NoReport == [title |-> "", rows |-> <<>>]   \* nothing saved at report_path
NoFill == "NoFill"

(***************************************************************************)
(* Helpers                                                                 *)
(***************************************************************************)
SeqsUpTo(S, n) == UNION {[1..k -> S] : k \in 0..n}

Min(a, b) == IF a < b THEN a ELSE b

RECURSIVE SumLens(_)
SumLens(ss) == IF ss = <<>> THEN 0 ELSE Len(Head(ss)) + SumLens(Tail(ss))

\* str.lower() on one character / on a string
LowerChar(c) == IF c = "A" THEN "a" ELSE c
Lower(s) == [i \in 1..Len(s) |-> LowerChar(s[i])]

\* str.find(ch): 0-based index of the first occurrence, -1 when absent
find(s, ch) ==
    LET hits == {i \in 1..Len(s) : s[i] = ch}
    IN  IF hits = {} THEN -1
        ELSE (CHOOSE i \in hits : \A j \in hits : i <= j) - 1

\* str.rfind(ch): 0-based index of the last occurrence, -1 when absent
rfind(s, ch) ==
    LET hits == {i \in 1..Len(s) : s[i] = ch}
    IN  IF hits = {} THEN -1
        ELSE (CHOOSE i \in hits : \A j \in hits : j <= i) - 1

\* os.path.splitext(p)[1] (genericpath._splitext with sep "/" absent from
\* file names): the suffix from the last dot, unless only dots precede it.
RECURSIVE splitext_scan(_, _, _)
splitext_scan(p, filenameIndex, dotIndex) ==
    IF filenameIndex < dotIndex
    THEN IF p[filenameIndex + 1] # "."
         THEN SubSeq(p, dotIndex + 1, Len(p))
         ELSE splitext_scan(p, filenameIndex + 1, dotIndex)
    ELSE <<>>

splitext_ext(p) ==
    LET sepIndex == -1
        dotIndex == rfind(p, ".")
    IN  IF dotIndex > sepIndex
        THEN splitext_scan(p, sepIndex + 1, dotIndex)
        ELSE <<>>

FileExtension(file) == Lower(splitext_ext(file))

\* the matcher of r"^\([A-Za-z0-9]*\)": the token may be empty
RECURSIVE re_match_star(_, _, _)
re_match_star(s, i, st) ==
    IF i > Len(s) THEN FALSE
    ELSE CASE st = "start" -> s[i] = "(" /\ re_match_star(s, i + 1, "token")
           [] OTHER        -> \/ s[i] = ")"
                              \/ s[i] \in Alnum /\ re_match_star(s, i + 1, "token")

\* re.match(r"^\([A-Za-z0-9]+\)", filename): the matcher run left to
\* right; st is "start", "open" (after the parenthesis) or "token" (inside
\* the alphanumeric run).
RECURSIVE re_match(_, _, _)
re_match(s, i, st) ==
    IF i > Len(s) THEN FALSE
    ELSE CASE st = "start" -> s[i] = "(" /\ re_match(s, i + 1, "open")
           [] st = "open"  -> s[i] \in Alnum /\ re_match(s, i + 1, "token")
           [] OTHER        -> \/ s[i] = ")"
                              \/ s[i] \in Alnum /\ re_match(s, i + 1, "token")

FormMarker == "Form(maybe)"

is_form_type(name) == IF re_match(name, 1, "start") THEN FormMarker ELSE ""

\* hashlib.md5: update() accumulates the bytes, hexdigest() is a function of
\* the accumulated bytes alone (collisions are not modelled).
md5_update(state, chunk) == state \o chunk
hexdigest(state) == <<"md5">> \o state

\* f.read(chunk_size) at a read position
ReadAt(data, off) == SubSeq(data, off + 1, Min(off + chunk_size, Len(data)))

(***************************************************************************)
(* The disk                                                                *)
(***************************************************************************)
NamePool == {<<"(", "1", ")", ".", "A">>}
DataPool == SeqsUpTo(Bytes, MaxBytes)
FilePool == [name : NamePool, data : DataPool]

\* A directory tree is kept in os.walk (top-down) order: each directory with
\* its nesting depth and its regular files.
WalkOrder(depths) ==
    /\ Len(depths) >= 1
    /\ depths[1] = 0
    /\ \A i \in 2..Len(depths) :
         depths[i] >= 1 /\ depths[i] <= depths[i - 1] + 1

DepthSeqs(n) == {ds \in [1..n -> 0..(n - 1)] : WalkOrder(ds)}

RECURSIVE Sum(_)
Sum(ns) == IF ns = <<>> THEN 0 ELSE Head(ns) + Sum(Tail(ns))

\* the shape of a root path: it names nothing, a regular file, or a
\* directory tree with so many files in each directory
Shapes ==
    [kind : {"missing", "file"}, depths : {<<>>}, counts : {<<>>}]
      \cup UNION {[kind : {"dir"}, depths : DepthSeqs(n),
                   counts : {c \in [1..n -> 0..MaxFiles] : Sum(c) <= MaxFiles}]
                  : n \in 1..MaxDirs}

\* the root of a shape, its directories filled in walk order from files
Root(shape, files) ==
    [kind |-> shape.kind,
     dirs |-> [i \in 1..Len(shape.depths) |->
                 [depth |-> shape.depths[i],
                  files |-> SubSeq(files,
                                   Sum(SubSeq(shape.counts, 1, i - 1)) + 1,
                                   Sum(SubSeq(shape.counts, 1, i)))]]]

FileCount(root) == SumLens([i \in 1..Len(root.dirs) |-> root.dirs[i].files])

\* os.walk(top) with onerror=None: a top that cannot be listed yields nothing
os_walk(root) == IF root.kind = "dir" THEN root.dirs ELSE <<>>

folder1 == 1
folder2 == 2
FolderLabel(root) == IF root = folder1 THEN "Folder1" ELSE "Folder2"

(***************************************************************************)
(* Report builder                                                          *)
(***************************************************************************)
headers == <<"File Name", "File Hash", "File Type", "File Size", "Folder",
             "Content Type">>

header_fill == "FFD700"
folder1_fill == "ADD8E6"
folder2_fill == "FFC0CB"
duplicate_hash_fill == "FFFF00"

RecSize(rec) == rec[4]
RecHash(rec) == rec[2]
RecLabel(rec) == rec[5]

\* df.sort_values(by="File Size"): pandas' default kind is quicksort, which
\* is not stable, so every ascending arrangement is a possible outcome.
RECURSIVE Arrangements(_, _)
Arrangements(list, idx) ==
    IF idx = {} THEN {<<>>}
    ELSE LET least == {i \in idx :
                         \A j \in idx : RecSize(list[i]) <= RecSize(list[j])}
         IN  UNION {{<<list[i]>> \o rest : rest \in Arrangements(list, idx \ {i})}
                    : i \in least}

sort_values(list) == Arrangements(list, DOMAIN list)

\* hash_counts: one pass over the File Hash column
RECURSIVE CountHashes(_, _)
CountHashes(list, counts) ==
    IF list = <<>> THEN counts
    ELSE LET h == RecHash(Head(list))
         IN  CountHashes(Tail(list),
               [x \in DOMAIN counts \cup {h} |->
                  IF x = h THEN (IF h \in DOMAIN counts THEN counts[h] ELSE 0) + 1
                  ELSE counts[x]])

hash_counts(df) == CountHashes(df, <<>>)

\* `else` in place of `elif folder_name == "Folder2"`
FolderFill_else(folder_name) ==
    IF folder_name = "Folder1" THEN folder1_fill ELSE folder2_fill

FolderFill(folder_name) ==
    IF folder_name = "Folder1" THEN folder1_fill
    ELSE IF folder_name = "Folder2" THEN folder2_fill
    ELSE NoFill

\* `>= 1` in place of `> 1`
HashFill_ge1(counts, file_hash) ==
    IF counts[file_hash] >= 1 THEN duplicate_hash_fill ELSE NoFill

HashFill(counts, file_hash) ==
    IF counts[file_hash] > 1 THEN duplicate_hash_fill ELSE NoFill

RenderRow(row, counts) ==
    [values |-> row,
     folder_fill |-> FolderFill(RecLabel(row)),
     hash_fill |-> HashFill(counts, RecHash(row)),
     alignment |-> "center"]

\* the workbook handed to wb.save; column widths are left out
Workbook(df) ==
    LET counts == hash_counts(df)
    IN  [title |-> "File List Report",
         header |-> [values |-> headers, fill |-> header_fill, bold |-> TRUE,
                     alignment |-> "center"],
         rows |-> [i \in 1..Len(df) |-> RenderRow(df[i], counts)]]

(***************************************************************************)
(* The run of __main__                                                     *)
(***************************************************************************)
CurDirs == os_walk(fs[r])
AtFile == r <= 2 /\ d <= Len(CurDirs) /\ f <= Len(CurDirs[d].files)
CurFile == CurDirs[d].files[f]

Idle == /\ filename = None /\ file_extension = None /\ content_type = None

Init ==
    /\ \E s1 \in Shapes, s2 \in Shapes :
         /\ Sum(s1.counts) + Sum(s2.counts) <= MaxFiles
         /\ \E files1 \in [1..Sum(s1.counts) -> FilePool],
               files2 \in [1..Sum(s2.counts) -> FilePool] :
              fs = <<Root(s1, files1), Root(s2, files2)>>
    /\ pc = "walk"
    /\ r = 1 /\ d = 1 /\ f = 1
    /\ file_list = <<>>
    /\ handles = 0
    /\ hash_algo = <<>>
    /\ offset = 0
    /\ file_size = 0
    /\ hashed = 0
    /\ err = "none"
    /\ report = NoReport
    /\ Idle

\* only the top directory is listed, the walk does not descend
WalkDir_top_only ==
    /\ pc = "walk" /\ r <= 2
    /\ d <= Len(CurDirs) /\ f > Len(CurDirs[d].files)
    /\ d' = Len(CurDirs) + 1 /\ f' = 1
    /\ UNCHANGED <<fs, pc, r, file_list, handles, hash_algo, offset, file_size,
                   hashed, err, report, filename, file_extension, content_type>>

\* os.walk yields the next directory of the tree
WalkDir ==
    /\ pc = "walk" /\ r <= 2
    /\ d <= Len(CurDirs) /\ f > Len(CurDirs[d].files)
    /\ d' = d + 1 /\ f' = 1
    /\ UNCHANGED <<fs, pc, r, file_list, handles, hash_algo, offset, file_size,
                   hashed, err, report, filename, file_extension, content_type>>

\* os.walk is exhausted: list_all_files returns, the next call starts or
\* the concatenated list goes to the report builder
WalkReturn ==
    /\ pc = "walk" /\ r <= 2
    /\ d > Len(CurDirs)
    /\ r' = r + 1 /\ d' = 1 /\ f' = 1
    /\ pc' = IF r = 2 THEN "report" ELSE "walk"
    /\ UNCHANGED <<fs, file_list, handles, hash_algo, offset, file_size,
                   hashed, err, report, filename, file_extension, content_type>>

\* os.path.getsize, then calculate_full_hash opens the file
OpenFile ==
    /\ pc = "walk" /\ AtFile
    /\ file_size' = Len(CurFile.data)
    /\ hashed' = hashed + 1
    /\ hash_algo' = <<>>
    /\ offset' = 0
    /\ handles' = handles + 1
    /\ pc' = "read"
    /\ UNCHANGED <<fs, r, d, f, file_list, err, report, filename,
                   file_extension, content_type>>

\* getsize raises (before the hash call) or open raises (inside it): the
\* exception leaves list_all_files and __main__
OpenFails ==
    /\ pc = "walk" /\ AtFile
    /\ \E started \in {0, 1} : hashed' = hashed + started
    /\ err' = "OSError"
    /\ pc' = "aborted"
    /\ UNCHANGED <<fs, r, d, f, file_list, handles, hash_algo, offset,
                   file_size, report, filename, file_extension, content_type>>

\* one iteration of `while chunk := f.read(chunk_size)`
ReadChunk ==
    /\ pc = "read"
    /\ ReadAt(CurFile.data, offset) # <<>>
    /\ hash_algo' = md5_update(hash_algo, ReadAt(CurFile.data, offset))
    /\ offset' = offset + Len(ReadAt(CurFile.data, offset))
    /\ UNCHANGED <<fs, pc, r, d, f, file_list, handles, file_size, hashed,
                   err, report, filename, file_extension, content_type>>

\* the read returns b"": the with block closes the handle, the digest is
\* returned and list_all_files appends the record
ReadEnd ==
    /\ pc = "read"
    /\ ReadAt(CurFile.data, offset) = <<>>
    /\ handles' = handles - 1
    /\ file_list' = Append(file_list,
                      <<CurFile.name, hexdigest(hash_algo),
                        FileExtension(CurFile.name), file_size,
                        FolderLabel(r), is_form_type(CurFile.name)>>)
    /\ f' = f + 1
    /\ pc' = "walk"
    /\ UNCHANGED <<fs, r, d, hash_algo, offset, file_size, hashed, err,
                   report, filename, file_extension, content_type>>

\* the read error is swallowed and the file skipped
ReadFails_skip ==
    /\ pc = "read"
    /\ handles' = handles - 1
    /\ err' = "IOError"
    /\ f' = f + 1
    /\ pc' = "walk"
    /\ UNCHANGED <<fs, r, d, file_list, hash_algo, offset, file_size,
                   hashed, report, filename, file_extension, content_type>>

\* the handle is not closed when the read raises (no with block)
ReadFails_leak ==
    /\ pc = "read"
    /\ err' = "IOError"
    /\ pc' = "aborted"
    /\ UNCHANGED <<fs, r, d, f, file_list, handles, hash_algo, offset,
                   file_size, hashed, report, filename, file_extension,
                   content_type>>

\* f.read raises: the with block closes the handle, the exception leaves
\* calculate_full_hash, list_all_files and __main__
ReadFails ==
    /\ pc = "read"
    /\ handles' = handles - 1
    /\ err' = "IOError"
    /\ pc' = "aborted"
    /\ UNCHANGED <<fs, r, d, f, file_list, hash_algo, offset, file_size,
                   hashed, report, filename, file_extension, content_type>>

\* an early return on an empty list: nothing is saved
GenerateReport_skip_empty ==
    /\ pc = "report"
    /\ IF file_list = <<>> THEN report' = report
       ELSE \E df \in sort_values(file_list) : report' = Workbook(df)
    /\ pc' = "done"
    /\ UNCHANGED <<fs, r, d, f, file_list, handles, hash_algo, offset,
                   file_size, hashed, err, filename, file_extension,
                   content_type>>

\* generate_styled_excel_report(all_files, report_path)
GenerateReport ==
    /\ pc = "report"
    /\ \E df \in sort_values(file_list) : report' = Workbook(df)
    /\ pc' = "done"
    /\ UNCHANGED <<fs, r, d, f, file_list, handles, hash_algo, offset,
                   file_size, hashed, err, filename, file_extension,
                   content_type>>

Next ==
    \/ WalkDir
    \/ WalkReturn
    \/ OpenFile
    \/ OpenFails
    \/ ReadChunk
    \/ ReadEnd
    \/ ReadFails
    \/ GenerateReport

Spec == Init /\ [][Next]_vars

(***************************************************************************)
(* The report builder called on any list of records                        *)
(***************************************************************************)
NoDisk == <<[kind |-> "missing", dirs |-> <<>>],
            [kind |-> "missing", dirs |-> <<>>]>>

Labels == {"Folder1", "Folder2", "Folder3"}
Digests == {hexdigest(data) : data \in SeqsUpTo(Bytes, 1)}
Sizes == 0..2

RecordPool ==
    {<<name, digest, FileExtension(name), size, label, is_form_type(name)>> :
        name \in NamePool, digest \in Digests, size \in Sizes, label \in Labels}

InitReport ==
    /\ fs = NoDisk
    /\ pc = "report"
    /\ r = 3 /\ d = 1 /\ f = 1
    /\ file_list \in SeqsUpTo(RecordPool, MaxRecords)
    /\ handles = 0
    /\ hash_algo = <<>>
    /\ offset = 0
    /\ file_size = 0
    /\ hashed = 0
    /\ err = "none"
    /\ report = NoReport
    /\ Idle

NextReport == GenerateReport

SpecReport == InitReport /\ [][NextReport]_vars

(***************************************************************************)
(* The name functions applied to any file name                             *)
(***************************************************************************)
FileNames == SeqsUpTo(Chars, MaxNameLen) \ {<<>>}

InitNames ==
    /\ fs = NoDisk
    /\ pc = "name"
    /\ r = 3 /\ d = 1 /\ f = 1
    /\ file_list = <<>>
    /\ handles = 0
    /\ hash_algo = <<>>
    /\ offset = 0
    /\ file_size = 0
    /\ hashed = 0
    /\ err = "none"
    /\ report = NoReport
    /\ filename \in FileNames
    /\ file_extension = None
    /\ content_type = None

\* the two name-derived fields of a record (list_all_files)
NameFields ==
    /\ pc = "name"
    /\ file_extension' = FileExtension(filename)
    /\ content_type' = is_form_type(filename)
    /\ pc' = "named"
    /\ UNCHANGED <<fs, r, d, f, file_list, handles, hash_algo, offset,
                   file_size, hashed, err, report, filename>>

NextNames == NameFields

SpecNames == InitNames /\ [][NextNames]_vars

(***************************************************************************)
(* Properties                                                              *)
(***************************************************************************)
Count(seq, x) == Cardinality({i \in DOMAIN seq : seq[i] = x})
SameBag(s1, s2) ==
    /\ Len(s1) = Len(s2)
    /\ \A i \in DOMAIN s1 : Count(s1, s1[i]) = Count(s2, s1[i])

RowValues(rep) == [i \in DOMAIN rep.rows |-> rep.rows[i].values]

\* C1: the File Hash cell of a data row is highlighted iff at least two
\* records of the whole input list carry the row's hash; a hash that occurs
\* once is never highlighted.
C1_DuplicateHighlight ==
    report # NoReport =>
      \A i \in DOMAIN report.rows :
        LET row == report.rows[i]
            sharing == {j \in DOMAIN file_list :
                          RecHash(file_list[j]) = RecHash(row.values)}
        IN  /\ row.hash_fill \in {duplicate_hash_fill, NoFill}
            /\ row.hash_fill = duplicate_hash_fill <=> Cardinality(sharing) >= 2

C1_Witness ==
    /\ report # NoReport
    /\ Len(report.rows) = 3
    /\ report.rows[1].hash_fill = duplicate_hash_fill
    /\ report.rows[2].hash_fill = NoFill
    /\ report.rows[3].hash_fill = duplicate_hash_fill
    /\ RecLabel(report.rows[1].values) # RecLabel(report.rows[3].values)

\* the stable ascending sort of a list by size
RECURSIVE InsertStable(_, _)
InsertStable(sorted, rec) ==
    IF sorted = <<>> THEN <<rec>>
    ELSE IF RecSize(Head(sorted)) <= RecSize(rec)
         THEN <<Head(sorted)>> \o InsertStable(Tail(sorted), rec)
         ELSE <<rec>> \o sorted

RECURSIVE StableSort(_)
StableSort(list) ==
    IF list = <<>> THEN <<>>
    ELSE InsertStable(StableSort(SubSeq(list, 1, Len(list) - 1)),
                      list[Len(list)])

\* C2: the data rows are in non-decreasing order of size and records of
\* equal size keep their relative input order (the sort is stable).
C2_StableSort ==
    report # NoReport => RowValues(report) = StableSort(file_list)

BadRoot == \E k \in {folder1, folder2} : fs[k].kind # "dir"

\* C3: when a root does not exist or is not a directory the run fails with
\* an error before any file of either root is hashed, and no report is
\* produced.
C3_MissingRootFails ==
    BadRoot => /\ hashed = 0
               /\ report = NoReport
               /\ pc \notin {"report", "done"}

\* C4: the report is written only after every file of both roots has been
\* fingerprinted; a fingerprinting failure ends the run at once, with no
\* retry or skip, and no report is written.
C4_NoPartialReport ==
    /\ report # NoReport =>
         /\ pc = "done"
         /\ err = "none"
         /\ Len(file_list) = FileCount(fs[1]) + FileCount(fs[2])
         /\ hashed = Len(file_list)
    /\ err # "none" =>
         /\ pc = "aborted"
         /\ report = NoReport
         /\ ~ ENABLED Next

C4_Witness ==
    /\ pc = "aborted"
    /\ err = "IOError"
    /\ Len(file_list) >= 1
    /\ Len(file_list) < FileCount(fs[1]) + FileCount(fs[2])
    /\ report = NoReport

HasDot(name) == \E i \in 1..Len(name) : name[i] = "."
LastDot(name) == CHOOSE i \in 1..Len(name) :
                   name[i] = "." /\ \A j \in (i + 1)..Len(name) : name[j] # "."
FromLastDot(name) == [i \in 1..(Len(name) - LastDot(name) + 1) |->
                        LowerChar(name[LastDot(name) + i - 1])]

\* C5 as stated: the extension is the lowercased suffix from the last dot,
\* and is empty exactly when the name has no dot.
C5_LastDotSuffix ==
    pc = "named" =>
      file_extension = IF HasDot(filename) THEN FromLastDot(filename) ELSE <<>>

\* C5 amended: the extension is the lowercased suffix from the last dot when
\* some character other than a dot precedes that dot; it is empty when the
\* name has no dot or only dots precede its last dot.
C5_LastDotSuffixAfterStem ==
    pc = "named" =>
      file_extension =
        IF HasDot(filename)
           /\ \E i \in 1..(LastDot(filename) - 1) : filename[i] # "."
        THEN FromLastDot(filename)
        ELSE <<>>

C5_Witness ==
    /\ pc = "named"
    /\ filename[1] = "."
    /\ Len(filename) = 4
    /\ filename[4] = "A"
    /\ file_extension = <<".", "a">>

\* C6: is_form_type returns the marker iff the name begins with "(", one or
\* more alphanumeric characters and ")", and the empty string otherwise.
C6_FormPattern ==
    pc = "named" =>
      /\ content_type \in {FormMarker, ""}
      /\ content_type = FormMarker <=>
           \E k \in 1..(Len(filename) - 2) :
             /\ filename[1] = "("
             /\ \A i \in 2..(k + 1) : filename[i] \in Alnum
             /\ filename[k + 2] = ")"

C6_Witness ==
    /\ pc = "named"
    /\ content_type = FormMarker
    /\ Len(filename) = 4
    /\ filename[4] = ")"

\* C7: the Folder cell's fill depends on the row's label alone: the first
\* folder colour for the first label, the second for the second label, no
\* fill for any other label, whatever the hash highlight of the row.
C7_FolderFill ==
    report # NoReport =>
      /\ pc = "done" /\ err = "none"
      /\ \A i \in DOMAIN report.rows :
           LET row == report.rows[i]
               label == RecLabel(row.values)
           IN  row.folder_fill =
                 CASE label = FolderLabel(folder1) -> folder1_fill
                   [] label = FolderLabel(folder2) -> folder2_fill
                   [] OTHER -> NoFill

C7_Witness ==
    /\ report # NoReport
    /\ \E i, j, k \in DOMAIN report.rows :
         /\ report.rows[i].folder_fill = folder1_fill
         /\ report.rows[i].hash_fill = duplicate_hash_fill
         /\ report.rows[j].folder_fill = folder2_fill
         /\ report.rows[j].hash_fill = NoFill
         /\ RecLabel(report.rows[k].values) = "Folder3"
         /\ report.rows[k].folder_fill = NoFill
         /\ report.rows[k].hash_fill = duplicate_hash_fill

\* the files of a root, every directory of its tree included
RECURSIVE Flatten(_)
Flatten(dirs) ==
    IF dirs = <<>> THEN <<>> ELSE Head(dirs).files \o Flatten(Tail(dirs))

FilesOf(k) == Flatten(fs[k].dirs)

RowsOf(rep, label) ==
    {i \in DOMAIN rep.rows : RecLabel(rep.rows[i].values) = label}

\* C8: a completed run has one header row and exactly one data row per file
\* of each root's tree, labelled with the label passed for that root; the
\* rows are the records, none dropped, duplicated or altered.
C8_OneRowPerFile ==
    pc = "done" =>
      /\ report # NoReport
      /\ report.header.values = headers
      /\ Len(report.rows) = Len(FilesOf(folder1)) + Len(FilesOf(folder2))
      /\ SameBag(RowValues(report), file_list)
      /\ \A k \in {folder1, folder2} :
           LET label == IF k = folder1 THEN "Folder1" ELSE "Folder2"
           IN  /\ Cardinality(RowsOf(report, label)) = Len(FilesOf(k))
               /\ \A file \in FilePool :
                    Cardinality({i \in RowsOf(report, label) :
                                   /\ report.rows[i].values[1] = file.name
                                   /\ report.rows[i].values[2] = <<"md5">> \o file.data
                                   /\ report.rows[i].values[4] = Len(file.data)})
                      = Count(FilesOf(k), file)

C8_Witness ==
    /\ pc = "done"
    /\ Len(report.rows) = 2
    /\ \E i \in DOMAIN fs[folder1].dirs :
         fs[folder1].dirs[i].depth = 1 /\ fs[folder1].dirs[i].files # <<>>
    /\ \E i \in DOMAIN FilesOf(folder1), j \in DOMAIN FilesOf(folder2) :
         FilesOf(folder1)[i] = FilesOf(folder2)[j]

BothRootsEmpty ==
    \A k \in {folder1, folder2} : fs[k].kind = "dir" /\ FilesOf(k) = <<>>

\* C9: when both roots exist and hold no files the run ends without error
\* and saves a workbook with the header row and no data rows.
C9_EmptyFolders ==
    BothRootsEmpty =>
      /\ pc # "aborted" /\ err = "none"
      /\ pc # "done" => ENABLED Next
      /\ pc = "done" =>
           /\ report # NoReport
           /\ report.header.values =
                <<"File Name", "File Hash", "File Type", "File Size",
                  "Folder", "Content Type">>
           /\ report.rows = <<>>

C9_Witness ==
    /\ BothRootsEmpty
    /\ pc = "done"
    /\ report # NoReport
    /\ Len(fs[folder1].dirs) = 2

\* C10: at most one input file handle is open at any time; the handle of a
\* fingerprinting call is released when the call ends, normally or by a
\* read error, before the next file is opened or the run aborts.
C10_OneHandle ==
    /\ handles \in {0, 1}
    /\ pc \in {"walk", "report", "done", "aborted"} => handles = 0

C10_Witness ==
    /\ pc = "aborted"
    /\ err = "IOError"
    /\ handles = 0
    /\ offset >= 1
    /\ Len(file_list) >= 1
====
